---- MODULE Spec2Model ----
(***************************************************************************)
(* KoaX: the context pool (src/koax-implementation/src/context.ts), the    *)
(* dispatch engine (src/koax-implementation/src/application.ts) and the    *)
(* response wrapper (src/unnamed/part_007, response.ts), the logger        *)
(* (src/unnamed/part_010, logger.ts) and its transports                    *)
(* (src/koax-implementation/src/types.ts).                                 *)
(*                                                                         *)
(* One JavaScript job (the code between two suspension points) is one      *)
(* action: Node runs it to completion before any other callback.  The      *)
(* suspension points of handleRequest are the awaited user functions       *)
(* (request hooks, middleware legs, response hooks, error hooks); the      *)
(* 'finish' event of a response is a callback of its own.                  *)
(***************************************************************************)
EXTENDS Integers, Sequences, FiniteSets, TLC

\* ------------------------------------------------------------------ bounds
MaxRequests == 2        \* requests the server receives
MaxCtx == 3             \* cap on the Contexts ever constructed
MaxSize == 2            \* contextPoolSize the application is built with
NumRequestHooks == 2    \* onRequest hooks registered
NumMiddleware == 3      \* middleware registered ([A, B, C])
NumResponseHooks == 2   \* onResponse hooks registered
NumErrorHooks == 2      \* onError hooks registered
MaxNextCalls == 2       \* continuation calls one middleware makes at most
MaxCallers == 3         \* requests that call the pool directly
MaxChildren == 2        \* transports a MultiTransport is built over at most
BufferSize == 2         \* options.bufferSize of the File and HTTP transports
MaxWrites == 3          \* entries written to the transport under study
MaxFilterWrites == 4    \* entries written to a FilterTransport under study
MaxOps == 2             \* calls of flush and close made on the transport under study
MaxLoggers == 3         \* a logger and the loggers made from it by child()
MaxLogCalls == 2        \* logging calls made on those loggers

\* ------------------------------------------------------- program constants
DefaultStatus == 404    \* KoaXResponse._status
OkStatus == 200         \* status set by the body setter
ServerErrorStatus == 500
NodeDefaultStatus == 200    \* ServerResponse.statusCode until it is assigned
LevelTrace == 10        \* LOG_LEVELS.trace
LevelDebug == 20        \* LOG_LEVELS.debug
LevelInfo == 30         \* LOG_LEVELS.info
LevelWarn == 40         \* LOG_LEVELS.warn
LevelError == 50        \* LOG_LEVELS.error
LevelFatal == 60        \* LOG_LEVELS.fatal
LoggerLevel == 30       \* options.logger?.level || 'info'

Requests == 1..MaxRequests
Callers == 1..MaxCallers
CtxIds == 1..MaxCtx
NoCtx == 0

VARIABLES
    app,        \* the application's configuration, fixed once it listens
    req,        \* per request: the position of handleRequest and its objects
    pool,       \* ContextPool.pool: the free list (a stack, top at the end)
    created,    \* ContextPool.created
    inUse,      \* Context._inUse, per Context
    ctxs,       \* per Context: the fields of the Context and of its KoaXResponse
    users,      \* per Context: the requests that acquired it and did not release it yet
    refs,       \* per request: the Contexts acquire ever returned to it
    env,        \* what user code and clients do in this run: what hooks and
                \* middleware may throw and do, whether requests overlap
    last,       \* the last call of acquire or release: its arguments and, for
                \* acquire, the Context as it was returned
    tr          \* the log transport under study: its configuration and buffers,
                \* the entries written to it, how the last write ended

vars == <<app, req, pool, created, inUse, ctxs, users, refs, env, last, tr>>

\* ------------------------------------------------------------ thrown values
\* What user code may throw: a plain Error, an http error made by ctx.throw
\* (status and expose set), an error carrying only statusCode, and a nullish
\* value (throw undefined / throw null / a rejected promise without a reason).
StatusCodeError == [kind |-> "Error", status |-> 0, statusCode |-> 503, expose |-> FALSE, message |-> "upstream down"]
PlainError == [kind |-> "Error", status |-> 0, statusCode |-> 0, expose |-> FALSE, message |-> "boom"]
HttpError == [kind |-> "Error", status |-> 400, statusCode |-> 0, expose |-> TRUE, message |-> "bad request"]
Nullish == [kind |-> "nullish", status |-> 0, statusCode |-> 0, expose |-> FALSE, message |-> ""]
\* application.ts:222
NextTwiceError == [kind |-> "Error", status |-> 0, statusCode |-> 0, expose |-> FALSE, message |-> "next() called multiple times"]
\* reading a property of undefined/null
TypeError == [kind |-> "TypeError", status |-> 0, statusCode |-> 0, expose |-> FALSE, message |-> "Cannot read properties of undefined"]
NoError == [kind |-> "none", status |-> 0, statusCode |-> 0, expose |-> FALSE, message |-> ""]

UserThrows == {PlainError, HttpError, StatusCodeError, Nullish}

\* ------------------------------------------------------------ ContextPool
\* The pool state as one record, so that acquire and release are functions
\* of it: [pool, created, inUse].
PoolState == [pool |-> pool, created |-> created, inUse |-> inUse]

\* release does not look at the flag
ReleaseActsAlways(flag) == TRUE

\* context.ts:47  `if (!ctx._inUse) return;` : release acts only on a Context
\* whose in-use flag is set.
ReleaseActsOn(flag) == flag

\* the free list takes one Context more than maxSize
HasRoomOneMore(len, maxSize) == len <= maxSize

\* context.ts:52  `if (this.pool.length < this.maxSize)`
HasRoom(len, maxSize) == len < maxSize

\* acquire counts a reused Context as created
PoolAcquireCountsReuse(ps) ==
    IF Len(ps.pool) = 0
    THEN LET c == ps.created + 1
         IN [ctx |-> c,
             ps |-> [pool |-> ps.pool, created |-> ps.created + 1,
                     inUse |-> [ps.inUse EXCEPT ![c] = TRUE]]]
    ELSE LET c == ps.pool[Len(ps.pool)]
         IN [ctx |-> c,
             ps |-> [pool |-> SubSeq(ps.pool, 1, Len(ps.pool) - 1),
                     created |-> ps.created + 1,
                     inUse |-> [ps.inUse EXCEPT ![c] = TRUE]]]

\* acquire takes the Context pushed first (shift instead of pop)
PoolAcquireFifo(ps) ==
    IF Len(ps.pool) = 0
    THEN LET c == ps.created + 1
         IN [ctx |-> c,
             ps |-> [pool |-> ps.pool, created |-> ps.created + 1,
                     inUse |-> [ps.inUse EXCEPT ![c] = TRUE]]]
    ELSE LET c == ps.pool[1]
         IN [ctx |-> c,
             ps |-> [pool |-> SubSeq(ps.pool, 2, Len(ps.pool)),
                     created |-> ps.created,
                     inUse |-> [ps.inUse EXCEPT ![c] = TRUE]]]

\* context.ts:28-40  ContextPool.acquire: pop the most recently pushed Context
\* or construct one, then set its flag.  The result names the Context.
PoolAcquire(ps) ==
    IF Len(ps.pool) = 0
    THEN LET c == ps.created + 1
         IN [ctx |-> c,
             ps |-> [pool |-> ps.pool, created |-> ps.created + 1,
                     inUse |-> [ps.inUse EXCEPT ![c] = TRUE]]]
    ELSE LET c == ps.pool[Len(ps.pool)]
         IN [ctx |-> c,
             ps |-> [pool |-> SubSeq(ps.pool, 1, Len(ps.pool) - 1),
                     created |-> ps.created,
                     inUse |-> [ps.inUse EXCEPT ![c] = TRUE]]]

\* context.ts:46-57  ContextPool.release
PoolRelease(ps, c) ==
    IF ~ReleaseActsOn(ps.inUse[c])
    THEN ps
    ELSE [pool |-> IF HasRoom(Len(ps.pool), app.maxSize)
                   THEN Append(ps.pool, c) ELSE ps.pool,
          created |-> ps.created,
          inUse |-> [ps.inUse EXCEPT ![c] = FALSE]]

\* context.ts:52-55  release pushes the Context (and clears its state map)
\* when it acts and the free list has room.
ReleasePushes(ps, c) ==
    ReleaseActsOn(ps.inUse[c]) /\ HasRoom(Len(ps.pool), app.maxSize)

\* context.ts:62-68  ContextPool.getStats
GetStats == [poolSize |-> Len(pool), created |-> created, maxSize |-> app.maxSize]

SetPool(ps) ==
    /\ pool' = ps.pool
    /\ created' = ps.created
    /\ inUse' = ps.inUse

InPool(c) == \E k \in 1..Len(pool) : pool[k] = c

\* ------------------------------------------------- Context and KoaXResponse
UnsetBody == [kind |-> "unset", message |-> ""]
JsonBody == [kind |-> "json", message |-> ""]
\* a body JSON.stringify throws on (a cyclic object, a BigInt)
CyclicBody == [kind |-> "cyclic", message |-> ""]
ErrorBody(m) == [kind |-> "error", message |-> m]

\* A Context with its request and response wrappers: the request it is bound
\* to (req, res), KoaXResponse._status, _explicitStatus, _body and _message,
\* the keys of Context.state, and KoaXRequest._path and _query, each 0
\* (undefined) or the request whose URL the cached value was parsed from.
\* context.ts:84-101: a Context bound to request r with every field at its
\* default.
FreshCtx(r) ==
    [boundTo |-> r, status |-> DefaultStatus, explicit |-> FALSE, body |-> UnsetBody,
     message |-> "", state |-> {}, pathCache |-> 0, queryCache |-> 0]

NeverBuilt == FreshCtx(0)

\* reset leaves the state map of the Context as it is
CtxResetKeepsState(cx, r) ==
    [cx EXCEPT !.boundTo = r,
               !.pathCache = 0, !.queryCache = 0,
               !.body = UnsetBody, !.status = DefaultStatus, !.message = "",
               !.explicit = FALSE]

\* reset binds the new request and leaves the cached path and query
CtxResetKeepsCaches(cx, r) ==
    [cx EXCEPT !.boundTo = r,
               !.body = UnsetBody, !.status = DefaultStatus, !.message = "",
               !.explicit = FALSE,
               !.state = {}]

\* context.ts:94-101 Context.reset, request.ts:103-108 KoaXRequest.reset,
\* part_007:142-148 KoaXResponse.reset
CtxReset(cx, r) ==
    [cx EXCEPT !.boundTo = r,
               !.pathCache = 0, !.queryCache = 0,
               !.body = UnsetBody, !.status = DefaultStatus, !.message = "",
               !.explicit = FALSE,
               !.state = {}]

\* context.ts:52-55  what release does to the Context it pushes
CtxReleased(cx, pushed) == IF pushed THEN [cx EXCEPT !.state = {}] ELSE cx

\* request.ts:48-53  get path: the cached value, else the path of the URL
\* of the bound request, which is cached: [val, cx]
ReadPath(cx) ==
    IF cx.pathCache # 0 THEN [val |-> cx.pathCache, cx |-> cx]
    ELSE [val |-> cx.boundTo, cx |-> [cx EXCEPT !.pathCache = cx.boundTo]]

\* request.ts:66-83  get query, cached likewise
ReadQuery(cx) ==
    IF cx.queryCache # 0 THEN [val |-> cx.queryCache, cx |-> cx]
    ELSE [val |-> cx.boundTo, cx |-> [cx EXCEPT !.queryCache = cx.boundTo]]

\* The raw ServerResponse of one request: sentStatus is the status line that
\* went out with the headers (0: none yet), sentBody the body send() ended
\* the response with.
FreshRes == [headersSent |-> FALSE, writableEnded |-> FALSE, finished |-> FALSE,
             ends |-> 0, onFinish |-> 0, statusCode |-> NodeDefaultStatus,
             sentStatus |-> 0, sentBody |-> UnsetBody]

\* handleRequest before the request arrives.
IdleRequest ==
    [pc |-> "idle", ctx |-> NoCtx, hook |-> 0, index |-> -1, stack |-> <<>>,
     log |-> <<>>, err |-> NoError, errEntered |-> 0, outcome |-> "pending",
     released |-> 0, res |-> FreshRes]

\* A job of handleRequest works on w = [rq |-> the request, cx |-> its Context].
Logged(w, kind, i, what) == [w EXCEPT !.rq.log = Append(@, <<kind, i, what>>)]

\* part_007:25-29  set status
SetStatus(w, code) ==
    [w EXCEPT !.cx.status = code, !.cx.explicit = TRUE, !.rq.res.statusCode = code]

\* part_007:51-58  set body: a non-null body sets status 200 unless a status
\* was set explicitly.
SetBody(w, val) ==
    LET w1 == [w EXCEPT !.cx.body = val]
    IN IF ~w.cx.explicit /\ val.kind # "unset" THEN SetStatus(w1, OkStatus) ELSE w1

\* The headers go out, with the status the raw response holds by then.
FlushHeaders(w) ==
    IF w.rq.res.headersSent THEN w
    ELSE [w EXCEPT !.rq.res.headersSent = TRUE, !.rq.res.sentStatus = w.rq.res.statusCode]

\* ServerResponse.end(): the response is ended, its headers are sent.
ResEnd(w) ==
    [FlushHeaders(w) EXCEPT !.rq.res.writableEnded = TRUE, !.rq.res.ends = @ + 1]

\* send() without its guard
SendSkipsNothing(res) == FALSE

\* part_007:103  the guard of send()
SendSkips(res) == res.writableEnded \/ res.headersSent

\* part_007:102-136  KoaXResponse.send: [w, threw]
Send(w) ==
    IF SendSkips(w.rq.res) THEN [w |-> w, threw |-> FALSE]
    ELSE IF w.cx.body.kind = "cyclic" THEN [w |-> w, threw |-> TRUE]
    ELSE [w |-> [ResEnd(w) EXCEPT !.rq.res.sentBody = w.cx.body], threw |-> FALSE]

\* What a middleware may do to the response besides throwing or continuing:
\* nothing, ctx.body = value, ctx.body = a value that cannot be serialized,
\* ctx.res.end() (ending the response itself), ctx.res.write() (headers go out).
UserEffects == {"none", "body", "cyclic", "end", "write"}

\* A run lets the middleware of one request touch the response once.
Untouched(w) ==
    /\ w.cx.body.kind = "unset"
    /\ ~w.cx.explicit
    /\ ~w.rq.res.headersSent

ApplyEffect(w, eff) ==
    CASE eff = "body" -> SetBody(w, JsonBody)
      [] eff = "cyclic" -> SetBody(w, CyclicBody)
      [] eff = "end" -> IF w.rq.res.writableEnded THEN w ELSE ResEnd(w)
      [] eff = "write" -> IF w.rq.res.writableEnded THEN w ELSE FlushHeaders(w)
      [] OTHER -> w

\* What the code of a request leaves in the Context it owns: it read path and
\* query (request.ts:48-83, both cached), stored a key in ctx.state, set a
\* body (and so status 200) and a status message (part_007:38-41).
UseCtx(cx) ==
    LET c1 == ReadQuery(ReadPath(cx).cx).cx
        w == SetBody([rq |-> IdleRequest, cx |-> c1], JsonBody)
    IN [w.cx EXCEPT !.state = {"user"}, !.message = "custom"]

\* ------------------------------------------------------------------ Logger
\* application.ts:47  options.logger?.enabled ?? true
LoggerEnabled == TRUE

\* part_010:188-191  Logger.log forwards an entry when the logger is enabled
\* and the level reaches its threshold
LoggerForwards(level) == LoggerEnabled /\ level >= LoggerLevel

\* part_010:227  this.transport.write(entry), not wrapped: a write that throws
\* throws out of the logging call (types.ts:352-356: FilterTransport.write
\* lets its predicate's exception through; types.ts:81-85: any user Transport).
\* ctx.log (application.ts:153, 262) is the application's logger or a child
\* of it, and a child shares the transport of its parent (part_010:98-108).
LoggerThrows(level) == LoggerForwards(level) /\ app.transportThrows

TransportError == [kind |-> "Error", status |-> 0, statusCode |-> 0, expose |-> FALSE, message |-> "transport failed"]
SerializeError == [kind |-> "TypeError", status |-> 0, statusCode |-> 0, expose |-> FALSE, message |-> "Converting circular structure to JSON"]

\* -------------------------------------------------------------- transports
\* part_010:39-46  LOG_LEVELS
Levels == {LevelTrace, LevelDebug, LevelInfo, LevelWarn, LevelError, LevelFatal}

\* A log entry as a transport sees it: its level, and whether JSON.stringify
\* returns on it (it throws on an entry that carries a cyclic object or a
\* BigInt, which Logger.log merges in from the caller's data, part_010:218-223).
Entries == [level : {LevelInfo, LevelError}, ok : BOOLEAN]

\* the entries of calls at info, warn, error and fatal with plain data
LevelEntries == [level : {LevelInfo, LevelWarn, LevelError, LevelFatal}, ok : {TRUE}]

\* types.ts:70-76  the entry object of the n-th write
Stamp(e, n) == [id |-> n, level |-> e.level, ok |-> e.ok]

NoEntry == [id |-> 0, level |-> 0, ok |-> TRUE]

\* What one call of the underlying I/O carries (stream.write(lines), fetch
\* with the batch as its body, process.stdout.write, the user function) and
\* how the call stands: "written", or for a fetch "inflight", "sent", "failed".
Batch(es, st) == [entries |-> es, st |-> st]

\* A transport: its class (types.ts:91-365) and what it was built with
\* (prettyPrint, the user function, the filter predicate, the transports it
\* wraps); its buffer (buf), whether its interval timer is set (timer) and
\* its stream ended; the batches it handed to its destination (out) and the
\* number of entries it discarded without handing them over (lost); the
\* entries its write was called with (recv) and the calls of its flush and
\* close made from outside it.
Transport(type, pretty, fn, pred, children) ==
    [type |-> type, pretty |-> pretty, fn |-> fn, pred |-> pred, children |-> children,
     buf |-> <<>>, timer |-> type \in {"file", "http"}, ended |-> FALSE,
     out |-> <<>>, lost |-> 0, recv |-> <<>>, flushes |-> 0, closes |-> 0]

\* The user function of a FunctionTransport, and each method of a Transport
\* the user wrote (types.ts:81-85: void | Promise<void>), returns, throws,
\* or returns a promise that rejects.
FnBehaviours == {"returns", "throws", "rejects"}

\* The predicate of a FilterTransport: () => true, () => false,
\* e => e.level >= 50, one that always throws, and e => e.err.type !== ''
\* which throws on an entry without err (Logger.error(err) adds err,
\* part_010:154-164).
PredBehaviours == {"true", "false", "errors", "throws", "needsErr"}

\* this.filter(entry): "true", "false" or "throws"
PredOutcome(p, e) ==
    CASE p = "errors" -> IF e.level >= LevelError THEN "true" ELSE "false"
      [] p = "needsErr" -> IF e.level >= LevelError THEN "true" ELSE "throws"
      [] OTHER -> p

Leaves ==
    {Transport("console", p, "none", "none", <<>>) : p \in BOOLEAN}
    \cup {Transport("file", FALSE, "none", "none", <<>>),
          Transport("http", FALSE, "none", "none", <<>>)}
    \cup {Transport("function", FALSE, f, "none", <<>>) : f \in FnBehaviours}

\* types.ts:81-85  a Transport object of the user's own
UserTransports == {Transport("user", FALSE, f, "none", <<>>) : f \in FnBehaviours}

Transports ==
    Leaves
    \cup {Transport("multi", FALSE, "none", "none", cs) :
            cs \in UNION {[1..n -> Leaves] : n \in 1..MaxChildren}}
    \cup {Transport("filter", FALSE, "none", p, <<c>>) : p \in PredBehaviours, c \in Leaves}

\* the transports a composite wraps where flush and close are studied
Flushables ==
    {Transport("file", FALSE, "none", "none", <<>>),
     Transport("http", FALSE, "none", "none", <<>>),
     Transport("console", FALSE, "none", "none", <<>>)}
    \cup UserTransports

Composites ==
    {Transport("multi", FALSE, "none", "none", cs) : cs \in [1..MaxChildren -> Flushables]}
    \cup {Transport("filter", FALSE, "none", "true", <<c>>) : c \in Flushables}

\* The transport itself (slot 0) or the k-th transport it wraps.
Slots(t) == IF t.type \in {"multi", "filter"} THEN 1..Len(t.children) ELSE {0}

LeafAt(t, s) == IF s = 0 THEN t ELSE t.children[s]

WithLeaf(t, s, l) == IF s = 0 THEN l ELSE [t EXCEPT !.children[s] = l]

\* write(entry) was called
Received(t, e) == [t EXCEPT !.recv = Append(@, e)]

\* types.ts:98-109  ConsoleTransport.write: the entry is formatted outside any
\* try (JSON.stringify(entry), or formatPretty with JSON.stringify of the
\* extra fields, line 147), then written to stdout or stderr: [t, threw]
ConsoleWrite(t, e) ==
    IF ~e.ok THEN [t |-> t, threw |-> TRUE]
    ELSE [t |-> [t EXCEPT !.out = Append(@, Batch(<<e>>, "written"))], threw |-> FALSE]

\* a flush that writes to the stream whatever the buffer holds
FileFlushAlways(t) == [t EXCEPT !.out = Append(@, Batch(t.buf, "written")), !.buf = <<>>]

\* types.ts:195-201  FileTransport.flush: nothing on an empty buffer, else
\* the lines joined go to the stream in one write and the buffer is renewed
FileFlush(t) ==
    IF t.buf = <<>> THEN t
    ELSE [t EXCEPT !.out = Append(@, Batch(t.buf, "written")), !.buf = <<>>]

\* a threshold test that lets the buffer grow one past bufferSize
BufferFullLate(t) == Len(t.buf) > BufferSize

\* the threshold test of write: this.buffer.length >= this.bufferSize
\* (types.ts:190, 243)
BufferFull(t) == Len(t.buf) >= BufferSize

\* types.ts:186-193  FileTransport.write: JSON.stringify(entry) outside any
\* try, the line is buffered, a full buffer is flushed
FileWrite(t, e) ==
    IF ~e.ok THEN [t |-> t, threw |-> TRUE]
    ELSE LET b == [t EXCEPT !.buf = Append(@, e)]
         IN [t |-> IF BufferFull(b) THEN FileFlush(b) ELSE b, threw |-> FALSE]

\* a flush that posts the buffer itself and does not renew it
HttpFlushKeepsBuffer(t) ==
    IF t.buf = <<>> THEN t
    ELSE [t EXCEPT !.out = Append(@, Batch(t.buf, "inflight"))]

\* types.ts:248-264  HttpTransport.flush up to its await: nothing on an empty
\* buffer; else the buffer is copied and renewed and, inside the try, the
\* copy is serialized and posted.  JSON.stringify({ logs }) throws on a batch
\* that holds an entry it cannot serialize: fetch is not called, the catch
\* logs, the batch is gone.
HttpFlush(t) ==
    IF t.buf = <<>> THEN t
    ELSE IF \E i \in 1..Len(t.buf) : ~t.buf[i].ok
         THEN [t EXCEPT !.buf = <<>>, !.lost = @ + Len(t.buf)]
         ELSE [t EXCEPT !.buf = <<>>, !.out = Append(@, Batch(t.buf, "inflight"))]

\* a write that leaves flushing to the timer
HttpWriteNoFlush(t, e) == [t |-> [t EXCEPT !.buf = Append(@, e)], threw |-> FALSE]

\* types.ts:240-246  HttpTransport.write: the entry is buffered as it is, a
\* full buffer is flushed (the promise of flush is dropped)
HttpWrite(t, e) ==
    LET b == [t EXCEPT !.buf = Append(@, e)]
    IN [t |-> IF BufferFull(b) THEN HttpFlush(b) ELSE b, threw |-> FALSE]

\* a catch that puts the batch of a failed fetch back in front of the buffer
HttpSettleRetries(t, k, ok) ==
    IF ok THEN [t EXCEPT !.out[k].st = "sent"]
    ELSE [t EXCEPT !.out[k].st = "failed", !.buf = t.out[k].entries \o @]

\* types.ts:254-263  the fetch of batch k resolves, or rejects into the catch
\* of flush, which logs and goes on: the batch is not put back
HttpSettle(t, k, ok) == [t EXCEPT !.out[k].st = IF ok THEN "sent" ELSE "failed"]

\* types.ts:322-333  FunctionTransport.write: the call is inside a try, a
\* returned promise gets a catch handler
FunctionWrite(t, e) ==
    [t |-> [t EXCEPT !.out = Append(@, Batch(<<e>>, IF t.fn = "returns" THEN "written" ELSE "failed"))],
     threw |-> FALSE]

\* types.ts:82  write of a Transport of the user's own
UserWrite(t, e) ==
    [t |-> [t EXCEPT !.out = Append(@, Batch(<<e>>, IF t.fn = "returns" THEN "written" ELSE "failed"))],
     threw |-> t.fn = "throws"]

\* write of a transport that wraps no other
LeafWrite(t, e) ==
    LET r == Received(t, e)
    IN CASE t.type = "console" -> ConsoleWrite(r, e)
         [] t.type = "file" -> FileWrite(r, e)
         [] t.type = "http" -> HttpWrite(r, e)
         [] t.type = "function" -> FunctionWrite(r, e)
         [] t.type = "user" -> UserWrite(r, e)
         [] OTHER -> [t |-> t, threw |-> FALSE]

\* a loop over the children with no try inside it: the first write that
\* throws ends it
LoopEndsOnThrow(threw) == ~threw

\* types.ts:285-290  what MultiTransport.write does when a child's write
\* threw: the catch logs and the loop goes on
LoopGoesOn(threw) == TRUE

\* types.ts:283-292  MultiTransport.write: each child's write in a try of
\* its own, from child k on: [children, order], order the children whose
\* write was called, as they were called
RECURSIVE MultiWriteFrom(_, _, _, _)
MultiWriteFrom(children, order, k, e) ==
    IF k > Len(children) THEN [children |-> children, order |-> order]
    ELSE LET w == LeafWrite(children[k], e)
         IN IF LoopGoesOn(w.threw)
            THEN MultiWriteFrom([children EXCEPT ![k] = w.t], Append(order, k), k + 1, e)
            ELSE [children |-> [children EXCEPT ![k] = w.t], order |-> Append(order, k)]

\* the test inverted: what the predicate rejects is what goes through
PassesInverted(outcome) == outcome = "false"

\* types.ts:353  the test of FilterTransport.write on the predicate's result
Passes(outcome) == outcome = "true"

\* types.ts:352-356  FilterTransport.write: the predicate and the wrapped
\* transport's write are called outside any try
FilterWrite(t, e) ==
    LET p == PredOutcome(t.pred, e)
    IN IF p = "throws" THEN [t |-> t, threw |-> TRUE, order |-> <<>>]
       ELSE IF ~Passes(p) THEN [t |-> t, threw |-> FALSE, order |-> <<>>]
       ELSE LET c == LeafWrite(t.children[1], e)
            IN [t |-> [t EXCEPT !.children[1] = c.t], threw |-> c.threw, order |-> <<1>>]

\* transport.write(entry): [t, threw, order]
TransportWrite(t, e) ==
    LET r == Received(t, e)
    IN CASE t.type = "multi" ->
               LET m == MultiWriteFrom(r.children, <<>>, 1, e)
               IN [t |-> [r EXCEPT !.children = m.children], threw |-> FALSE, order |-> m.order]
         [] t.type = "filter" -> FilterWrite(r, e)
         [] OTHER -> LET w == LeafWrite(t, e) IN [t |-> w.t, threw |-> w.threw, order |-> <<>>]

\* types.ts:83-84  flush and close are optional: the Console and Function
\* transports define neither, the others both
HasOp(t) == t.type \in {"file", "http", "user", "multi", "filter"}

\* How a call of flush or close ended: the transport after the call's
\* synchronous part, whether it threw, whether the promise it returned
\* rejects, and the fetches (batch numbers) that promise waits for.
Ended(t, threw, rejects, awaits) ==
    [t |-> t, threw |-> threw, rejects |-> rejects, awaits |-> awaits]

\* the fetch that took t.out to h.out, if any
Posted(t, h) == IF Len(h.out) > Len(t.out) THEN {Len(h.out)} ELSE {}

\* flush() of a transport that wraps no other.  types.ts:195-201 (file,
\* returns nothing), 248-264 (http, an async function: its promise resolves
\* after the fetch, never rejects), 83 (the user's own)
LeafFlush(t) ==
    LET c == [t EXCEPT !.flushes = @ + 1]
    IN CASE t.type = "file" -> Ended(FileFlush(c), FALSE, FALSE, {})
         [] t.type = "http" -> Ended(HttpFlush(c), FALSE, FALSE, Posted(c, HttpFlush(c)))
         [] t.type = "user" -> Ended(c, t.fn = "throws", t.fn = "rejects", {})
         [] OTHER -> Ended(t, FALSE, FALSE, {})

\* types.ts:266-269  what HttpTransport.close returns for the fetches its
\* flush started: nothing, the promise of this.flush() is dropped
CloseAwaits(posted) == {}

\* close() of a transport that wraps no other.  types.ts:203-207 (file:
\* clearInterval, flush, stream.end), 266-269 (http: clearInterval, flush),
\* 84 (the user's own)
LeafClose(t) ==
    LET c == [t EXCEPT !.closes = @ + 1]
    IN CASE t.type = "file" ->
               Ended([FileFlush([c EXCEPT !.timer = FALSE]) EXCEPT !.ended = TRUE], FALSE, FALSE, {})
         [] t.type = "http" ->
               LET h == HttpFlush([c EXCEPT !.timer = FALSE])
               IN Ended(h, FALSE, FALSE, CloseAwaits(Posted(c, h)))
         [] t.type = "user" -> Ended(c, t.fn = "throws", t.fn = "rejects", {})
         [] OTHER -> Ended(t, FALSE, FALSE, {})

LeafOp(op, t) == IF op = "flush" THEN LeafFlush(t) ELSE LeafClose(t)

\* types.ts:294-308  MultiTransport.flush and close: the children that
\* define the method are mapped to its call, in order, from child k on; a
\* call that throws ends the map; Promise.all waits for the promises
\* returned and rejects as soon as one of them does.
\* r: [t: the children, threw, rejects, awaits: <<child, batch>> pairs]
RECURSIVE MultiOpFrom(_, _, _)
MultiOpFrom(op, r, k) ==
    IF k > Len(r.t) \/ r.threw THEN r
    ELSE IF ~HasOp(r.t[k]) THEN MultiOpFrom(op, r, k + 1)
    ELSE LET c == LeafOp(op, r.t[k])
         IN MultiOpFrom(op,
                Ended([r.t EXCEPT ![k] = c.t], c.threw, r.rejects \/ c.rejects,
                      r.awaits \cup {<<k, b>> : b \in c.awaits}),
                k + 1)

\* the call counted on the transport it was made on
Counted(op, t) ==
    IF op = "flush" THEN [t EXCEPT !.flushes = @ + 1] ELSE [t EXCEPT !.closes = @ + 1]

\* transport.flush() or transport.close().  A MultiTransport's are async
\* functions: what throws inside rejects their promise.  A FilterTransport's
\* (types.ts:358-364) return this.transport.flush?.() or close?.() as it is.
TransportOp(op, t) ==
    CASE t.type = "multi" ->
            LET m == MultiOpFrom(op, Ended(t.children, FALSE, FALSE, {}), 1)
            IN Ended([Counted(op, t) EXCEPT !.children = m.t], FALSE, m.threw \/ m.rejects, m.awaits)
      [] t.type = "filter" ->
            IF HasOp(t.children[1])
            THEN LET c == LeafOp(op, t.children[1])
                 IN Ended([Counted(op, t) EXCEPT !.children[1] = c.t], c.threw, c.rejects,
                          {<<1, b>> : b \in c.awaits})
            ELSE Ended(Counted(op, t), FALSE, FALSE, {})
      [] OTHER ->
            LET c == LeafOp(op, t)
            IN Ended(c.t, c.threw, c.rejects, {<<0, b>> : b \in c.awaits})

\* the fetches in flight after a call that were not before it
Issued(t0, t1) ==
    UNION {{<<s, k>> : k \in {j \in 1..Len(LeafAt(t1, s).out) :
                                /\ j > Len(LeafAt(t0, s).out)
                                /\ LeafAt(t1, s).out[j].st = "inflight"}} :
           s \in Slots(t1)}

\* The call of flush or close under way or last made on the transport: its
\* kind; whether it returned or its promise resolved ("done"), threw,
\* rejected ("failed") or is still pending; the fetches its promise waits
\* for and those the call started.
NoOp == [kind |-> "none", st |-> "none", awaits |-> {}, issued |-> {}]

Call(op, t0, r) ==
    [kind |-> op,
     st |-> IF r.threw THEN "threw"
            ELSE IF r.rejects THEN "failed"
            ELSE IF r.awaits = {} THEN "done" ELSE "pending",
     awaits |-> r.awaits,
     issued |-> Issued(t0, r.t)]

\* part_010:60-66  a Logger: enabled, and its threshold level
Loggers == [enabled : BOOLEAN, level : Levels]

NoLogger == [enabled |-> FALSE, level |-> 0]

\* a threshold test that also holds back the calls at the threshold itself
LogForwardsAbove(lg, level) == lg.enabled /\ level > lg.level

\* part_010:188-191  the two early returns of Logger.log
LogForwards(lg, level) == lg.enabled /\ level >= lg.level

\* part_010:233-235  Logger.isLevelEnabled
IsLevelEnabled(lg, level) == lg.enabled /\ level >= lg.level

\* ---- the entry a Logger builds: an object with the keys level, time, msg,
\* name and whatever keys the bindings and the data of the call bring
FieldKeys == {"level", "time", "msg", "name", "reqId", "user"}

\* the value that stands for "the object has no such key"
Absent(k) == IF k = "level" THEN 0 ELSE "absent"

NoFields == [k \in FieldKeys |-> Absent(k)]

Has(f, k) == f[k] # Absent(k)

\* the objects given to child() and, as data, to a logging call: none, a
\* request id, another request id with a user, an object with the keys
\* level and time, an object with the keys msg and name
FieldSets ==
    {NoFields,
     [NoFields EXCEPT !["reqId"] = "r1"],
     [NoFields EXCEPT !["reqId"] = "r2", !["user"] = "u1"],
     [NoFields EXCEPT !["level"] = LevelError, !["time"] = "then"],
     [NoFields EXCEPT !["msg"] = "other", !["name"] = "other"]}

\* Object.assign(target, src), { ...target, ...src }
Assign(target, src) == [k \in FieldKeys |-> IF Has(src, k) THEN src[k] ELSE target[k]]

\* part_010:48-55  LEVEL_NAMES
LevelNames(n) ==
    CASE n = LevelTrace -> "trace"
      [] n = LevelDebug -> "debug"
      [] n = LevelInfo -> "info"
      [] n = LevelWarn -> "warn"
      [] n = LevelError -> "error"
      [] n = LevelFatal -> "fatal"
      [] OTHER -> "undefined"

\* part_010:39-46  LOG_LEVELS
LogLevels(name) ==
    CASE name = "trace" -> LevelTrace
      [] name = "debug" -> LevelDebug
      [] name = "info" -> LevelInfo
      [] name = "warn" -> LevelWarn
      [] name = "error" -> LevelError
      [] name = "fatal" -> LevelFatal

\* part_010:82-92  new Logger(options), with the transports that exist
\* (heap): the transport is the one given (a reference into heap), or a
\* console transport built here
LoggerNew(options, heap) ==
    LET given == options.transport # 0
    IN [lg |-> [level |-> LogLevels(IF options.level = "undefined" THEN "info"
                                    ELSE options.level),
                name |-> options.name,
                prettyPrint |-> options.prettyPrint,
                enabled |-> options.enabled,
                bindings |-> NoFields,
                transport |-> IF given THEN options.transport ELSE Len(heap) + 1],
        heap |-> IF given THEN heap
                 ELSE Append(heap, Transport("console", options.prettyPrint, "none", "none", <<>>))]

\* a child built without the transport of its parent
ChildOptionsOwnTransport(lg) ==
    [level |-> LevelNames(lg.level), name |-> lg.name, prettyPrint |-> lg.prettyPrint,
     enabled |-> lg.enabled, transport |-> 0]

\* part_010:99-105  the options child() builds the new Logger with
ChildOptions(lg) ==
    [level |-> LevelNames(lg.level), name |-> lg.name, prettyPrint |-> lg.prettyPrint,
     enabled |-> lg.enabled, transport |-> lg.transport]

\* part_010:98-108  Logger.child(bindings)
Child(lg, fields, heap) ==
    LET n == LoggerNew(ChildOptions(lg), heap)
    IN [lg |-> [n.lg EXCEPT !.bindings = Assign(lg.bindings, fields)], heap |-> n.heap]

\* part_010:205-224  the entry of a call: level, time and msg, the name of a
\* named logger, then the bindings, then the data of the call assigned over it
BuildEntry(lg, levelNum, msg, data) ==
    LET e0 == [NoFields EXCEPT !["level"] = levelNum, !["time"] = "now", !["msg"] = msg]
        e1 == IF lg.name # Absent("name") THEN [e0 EXCEPT !["name"] = lg.name] ELSE e0
        e2 == IF lg.bindings # NoFields THEN Assign(e1, lg.bindings) ELSE e1
    IN IF data # NoFields THEN Assign(e2, data) ELSE e2

\* the entry as the transport takes it: the n-th handed over, of data
\* JSON.stringify accepts
Handed(e, n) ==
    [k \in FieldKeys \cup {"id", "ok"} |->
        IF k = "id" THEN n ELSE IF k = "ok" THEN TRUE ELSE e[k]]

\* no transport is under study
NoTransport ==
    [t |-> Transport("none", FALSE, "none", "none", <<>>), writes |-> 0, threw |-> FALSE,
     entry |-> NoEntry, order |-> <<>>, act |-> "none", op |-> NoOp, ops |-> 0,
     closed |-> FALSE, logger |-> NoLogger, calls |-> 0, level |-> 0]


\* ------------------------------------------------- handleRequest: the jobs
\* finally releases the Context at once instead of waiting for 'finish'
FinallyReleasesAtOnce(w, outcome) ==
    [w EXCEPT !.rq.released = @ + 1, !.rq.pc = "settled", !.rq.outcome = outcome,
              !.rq.stack = <<>>]

\* application.ts:163-168  finally: the 'finish' listener that releases the
\* Context is registered, and the promise of handleRequest settles.
Finally(w, outcome) ==
    [w EXCEPT !.rq.res.onFinish = @ + 1, !.rq.pc = "settled", !.rq.outcome = outcome,
              !.rq.stack = <<>>]

\* application.ts:258  err.status || err.statusCode || 500
ErrStatus(e) ==
    IF e.status # 0 THEN e.status
    ELSE IF e.statusCode # 0 THEN e.statusCode
    ELSE ServerErrorStatus

\* the message of the error goes to the client whatever its expose flag says
ErrMessageAlwaysExposed(e) == e.message

\* application.ts:259  err.expose ? err.message : 'Internal Server Error'
ErrMessage(e) == IF e.expose THEN e.message ELSE "Internal Server Error"

\* application.ts:282  this.emit('error', err, ctx): an EventEmitter with no
\* 'error' listener throws the error it is asked to emit.
EmitErrorThrows == ~app.errorListener

\* application.ts:274-283  the rest of handleError once the error hooks are
\* done, then the finally of handleRequest.
HandleErrorTail(w) ==
    LET w1 == SetBody(SetStatus(w, ErrStatus(w.rq.err)), ErrorBody(ErrMessage(w.rq.err)))
        s == IF ~w1.rq.res.writableEnded
             THEN Send(Logged(w1, "errorSend", 0, "send"))
             ELSE [w |-> w1, threw |-> FALSE]
    IN IF s.threw \/ EmitErrorThrows
       THEN Finally(s.w, "rejected")
       ELSE Finally(s.w, "resolved")

\* application.ts:161-162, 257-268  catch (err) { await this.handleError(err, ctx) }
\* up to the first awaited error hook.  Reading err.status of a nullish value
\* throws a TypeError out of handleError; so does a logging call whose
\* transport throws.
HandleError(w, e) ==
    LET w1 == Logged([w EXCEPT !.rq.err = e, !.rq.errEntered = @ + 1,
                               !.rq.stack = <<>>], "error", 0, "enter")
    IN IF e.kind = "nullish" THEN Finally(w1, "rejected")
       ELSE IF LoggerThrows(LevelError) THEN Finally(w1, "rejected")
       ELSE IF NumErrorHooks = 0 THEN HandleErrorTail(w1)
       ELSE [w1 EXCEPT !.rq.pc = "errorHooks", !.rq.hook = 1]

\* application.ts:265-272  the try block encloses the whole loop over the
\* error hooks: the hook that runs after hook k threw.
ErrorHookAfterThrow(k) == NumErrorHooks + 1

\* application.ts:266-268  error hook k returned
ErrorHookReturned(w) ==
    LET k == w.rq.hook
        w1 == Logged(w, "errorHook", k, "ok")
    IN IF k + 1 > NumErrorHooks THEN HandleErrorTail(w1)
       ELSE [w1 EXCEPT !.rq.hook = k + 1]

\* an error hook that throws is handled as any other error of the request:
\* handleError is entered again
ErrorHookThrewReenters(w) ==
    HandleError(Logged(w, "errorHook", w.rq.hook, "throw"), PlainError)

\* application.ts:269-272  error hook k threw: logged through the
\* application's logger, then on to what follows the hooks.
ErrorHookThrew(w) ==
    LET k == w.rq.hook
        w1 == Logged(w, "errorHook", k, "throw")
    IN IF LoggerThrows(LevelError) THEN Finally(w1, "rejected")
       ELSE IF ErrorHookAfterThrow(k) > NumErrorHooks THEN HandleErrorTail(w1)
       ELSE [w1 EXCEPT !.rq.hook = ErrorHookAfterThrow(k)]

\* application.ts:150-168  after the last response hook: the timing log,
\* respond(), and the catch and finally around them.
Respond(w) ==
    IF app.timing /\ LoggerThrows(LevelInfo) THEN HandleError(w, TransportError)
    ELSE LET s == Send(w)
         IN IF s.threw THEN HandleError(Logged(s.w, "respond", 0, "throw"), SerializeError)
            ELSE Finally(Logged(s.w, "respond", 0, "ok"), "resolved")

\* application.ts:183-187  executeResponseHooks
ExecuteResponseHooks(w) ==
    IF NumResponseHooks = 0 THEN Respond(w)
    ELSE [w EXCEPT !.rq.pc = "responseHooks", !.rq.hook = 1]

\* application.ts:184-186  response hook k returned / threw
ResponseHookReturned(w) ==
    LET k == w.rq.hook
        w1 == Logged(w, "responseHook", k, "ok")
    IN IF k + 1 > NumResponseHooks THEN Respond(w1)
       ELSE [w1 EXCEPT !.rq.hook = k + 1]

\* the loop over the response hooks goes on after a hook threw
ResponseHookThrewGoesOn(w, e) ==
    LET k == w.rq.hook
        w1 == Logged(w, "responseHook", k, "throw")
    IN IF k + 1 > NumResponseHooks THEN Respond(w1)
       ELSE [w1 EXCEPT !.rq.hook = k + 1]

ResponseHookThrew(w, e) == HandleError(Logged(w, "responseHook", w.rq.hook, "throw"), e)

\* -------------------------------------------------------- executeMiddleware
\* The chain of awaited middleware calls is a stack of frames
\* [i, leg, calls]: middleware i is in its pre-continuation leg ("pre"),
\* awaits the continuation it called ("wait"), or is in its
\* post-continuation leg ("post"); calls counts its continuation calls.
Top(w) == w.rq.stack[Len(w.rq.stack)]

SetTop(w, f) == [w EXCEPT !.rq.stack[Len(w.rq.stack)] = f]

\* dispatch without the test on the highest index reached
NextCalledTwiceUnseen(i, index) == FALSE

\* application.ts:221  `if (i <= index)`
NextCalledTwice(i, index) == i <= index

\* the continuation dispatches the middleware after the next one
NextOfSkipsOne(i) == i + 2

\* application.ts:237  `() => dispatch(i + 1)`
NextOf(i) == i + 1

\* a middleware that returns ends executeMiddleware at once: the middleware
\* that await it do not resume
ReturnSkipsUpstream(w) == ExecuteResponseHooks([w EXCEPT !.rq.stack = <<>>])

\* application.ts:243, 145-148  dispatch(0) resolved: executeMiddleware is
\* over; a middleware returned: the caller that awaits it resumes.
Return(w) ==
    LET n == Len(w.rq.stack)
        w1 == [w EXCEPT !.rq.stack = SubSeq(@, 1, n - 1)]
    IN IF n <= 1 THEN ExecuteResponseHooks(w1)
       ELSE SetTop(w1, [Top(w1) EXCEPT !.leg = "post"])

\* application.ts:219-241  dispatch(i), called by the middleware on top of
\* the stack (or by executeMiddleware when the stack is empty), awaited.
Dispatch(w, i) ==
    IF NextCalledTwice(i, w.rq.index) THEN HandleError(w, NextTwiceError)
    ELSE LET w1 == [w EXCEPT !.rq.index = i]
         IN IF i >= NumMiddleware
            THEN \* the end of the chain: the caller resumes
                 SetTop(w1, [Top(w1) EXCEPT !.leg = "post"])
            ELSE [w1 EXCEPT !.rq.stack = Append(@, [i |-> i, leg |-> "pre", calls |-> 0])]

\* The middleware on top of the stack calls and awaits its continuation.
CallNext(w) ==
    LET f == Top(w)
    IN Dispatch(SetTop(w, [f EXCEPT !.leg = "wait", !.calls = @ + 1]), NextOf(f.i))

\* The middleware on top of the stack calls its continuation and drops the
\* promise: a rejection of dispatch is not seen by anyone.
CallNextDetached(w) ==
    LET f == Top(w)
    IN IF NextCalledTwice(NextOf(f.i), w.rq.index)
       THEN SetTop(w, [f EXCEPT !.calls = @ + 1])
       ELSE CallNext(w)

\* application.ts:212-244  executeMiddleware
ExecuteMiddleware(w) ==
    IF NumMiddleware = 0 THEN ExecuteResponseHooks(w)
    ELSE Dispatch([w EXCEPT !.rq.pc = "middleware", !.rq.index = -1], 0)

\* application.ts:174-178  executeRequestHooks
ExecuteRequestHooks(w) ==
    IF NumRequestHooks = 0 THEN ExecuteMiddleware(w)
    ELSE [w EXCEPT !.rq.pc = "requestHooks", !.rq.hook = 1]

\* the loop over the request hooks steps over the hook after the one that returned
RequestHookReturnedSkipsOne(w) ==
    LET k == w.rq.hook
        w1 == Logged(w, "requestHook", k, "ok")
    IN IF k + 2 > NumRequestHooks THEN ExecuteMiddleware(w1)
       ELSE [w1 EXCEPT !.rq.hook = k + 2]

\* application.ts:175-177  request hook k returned / threw
RequestHookReturned(w) ==
    LET k == w.rq.hook
        w1 == Logged(w, "requestHook", k, "ok")
    IN IF k + 1 > NumRequestHooks THEN ExecuteMiddleware(w1)
       ELSE [w1 EXCEPT !.rq.hook = k + 1]

RequestHookThrew(w, e) == HandleError(Logged(w, "requestHook", w.rq.hook, "throw"), e)

\* the error of a middleware is swallowed: its caller resumes
MiddlewareThrewSwallowed(w, e) == Return(w)

\* A middleware threw (its promise rejected): every awaiting caller rethrows,
\* application.ts:238-240, up to the catch of handleRequest.
MiddlewareThrew(w, e) == HandleError(w, e)

\* --------------------------------------------------------------- the state
\* The record of the last pool call: no call yet; acquire for request r that
\* took Context c, found as cx0, from the free list (or constructed it) and
\* returned it as cx; release of c by request r that found its flag as it was.
NoCall ==
    [op |-> "none", ctx |-> NoCtx, by |-> 0, reused |-> FALSE, flag |-> FALSE,
     was |-> NeverBuilt, got |-> NeverBuilt]

Acquired(r, ps, c, cx0, cx) ==
    [op |-> "acquire", ctx |-> c, by |-> r, reused |-> Len(ps.pool) > 0, flag |-> FALSE,
     was |-> cx0, got |-> cx]

Released(r, ps, c) ==
    [op |-> "release", ctx |-> c, by |-> r, reused |-> FALSE, flag |-> ps.inUse[c],
     was |-> NeverBuilt, got |-> NeverBuilt]

\* one 'highest index reached' counter for the whole application
IndexCellShared(r) == 1

\* application.ts:213  `let index = -1` is a local of executeMiddleware: the
\* dispatch closures of request r read and write the counter of r's own
\* invocation
IndexCell(r) == r

World(r) ==
    [rq |-> [req[r] EXCEPT !.index = req[IndexCell(r)].index], cx |-> ctxs[req[r].ctx]]

\* The job's result is stored; each release call it made (the 'finish'
\* listener's) acts on the pool.
Commit(r, w) ==
    LET c == req[r].ctx
        n == w.rq.released - req[r].released
    IN /\ req' = [q \in Requests |->
                    IF q = r THEN w.rq
                    ELSE IF q = IndexCell(r) THEN [req[q] EXCEPT !.index = w.rq.index]
                    ELSE req[q]]
       /\ IF n > 0
          THEN /\ SetPool(PoolRelease(PoolState, c))
               /\ ctxs' = [ctxs EXCEPT ![c] = CtxReleased(w.cx, ReleasePushes(PoolState, c))]
               /\ users' = [users EXCEPT ![c] = @ \ {r}]
               /\ last' = Released(r, PoolState, c)
          ELSE /\ ctxs' = [ctxs EXCEPT ![c] = w.cx]
               /\ UNCHANGED <<pool, created, inUse, users, last>>
       /\ UNCHANGED <<app, refs, env, tr>>

\* application.ts:38-56  the application as constructed and set up: its pool
\* size, whether an 'error' listener is registered, whether the logger's
\* transport is one whose write throws, options.timing.
Apps ==
    {a \in [maxSize : {MaxSize}, errorListener : BOOLEAN,
            transportThrows : BOOLEAN, timing : BOOLEAN] :
        a.timing \/ a.transportThrows}

InitState ==
    /\ app \in Apps
    /\ req = [r \in Requests |-> IdleRequest]
    /\ pool = <<>>
    /\ created = 0
    /\ inUse = [c \in CtxIds |-> FALSE]
    /\ ctxs = [c \in CtxIds |-> NeverBuilt]
    /\ users = [c \in CtxIds |-> {}]
    /\ refs = [r \in Callers \cup Requests |-> {}]
    /\ last = NoCall

\* One request is handled at a time (the next one arrives once the handler
\* of the one before has settled; its response may still be unfinished);
\* hooks and middleware throw and touch the response freely.
Init ==
    /\ InitState
    /\ env = [throws |-> UserThrows, effects |-> UserEffects, overlap |-> FALSE]
    /\ tr = NoTransport

\* What is left of a request once its handler has settled and the next
\* request is accepted: the raw response, its listener and the Context the
\* listener holds.
Forget(rq) ==
    IF rq.pc = "settled"
    THEN [IdleRequest EXCEPT !.pc = "retired", !.ctx = rq.ctx, !.outcome = rq.outcome,
                             !.released = rq.released,
                             !.res = [rq.res EXCEPT !.statusCode = NodeDefaultStatus,
                                                    !.sentStatus = 0,
                                                    !.sentBody = UnsetBody]]
    ELSE rq

Handling(rq) == rq.pc \notin {"idle", "settled", "retired"}

\* application.ts:126-130, 137-142  a request arrives: the callback starts
\* handleRequest, which acquires a Context and starts the request hooks.
Arrive(r) ==
    /\ req[r].pc = "idle"
    /\ \A q \in Requests : q < r => req[q].pc # "idle"
    /\ env.overlap \/ \A q \in Requests : ~Handling(req[q])
    /\ Len(pool) > 0 \/ created < MaxCtx
    /\ LET a == PoolAcquire(PoolState)
           cx == CtxReset(ctxs[a.ctx], r)
           w == ExecuteRequestHooks([rq |-> [IdleRequest EXCEPT !.ctx = a.ctx],
                                     cx |-> cx])
       IN /\ SetPool(a.ps)
          /\ last' = Acquired(r, PoolState, a.ctx, ctxs[a.ctx], cx)
          /\ req' = [q \in Requests |-> IF q = r THEN w.rq ELSE Forget(req[q])]
          /\ ctxs' = [ctxs EXCEPT ![a.ctx] = w.cx]
          /\ users' = [users EXCEPT ![a.ctx] = @ \cup {r}]
          /\ refs' = [refs EXCEPT ![r] = @ \cup {a.ctx}]
    /\ UNCHANGED <<app, env, tr>>

\* application.ts:176  await hook(ctx): request hook k returns or throws
RequestHook(r) ==
    /\ req[r].pc = "requestHooks"
    /\ \/ Commit(r, RequestHookReturned(World(r)))
       \/ \E e \in env.throws : Commit(r, RequestHookThrew(World(r), e))

\* application.ts:237  await fn(ctx, next): the pre-continuation leg of the
\* middleware on top of the stack: it returns, throws, or calls next()
MiddlewarePre(r) ==
    /\ req[r].pc = "middleware"
    /\ Top(World(r)).leg = "pre"
    /\ \E eff \in env.effects :
        LET w == ApplyEffect(World(r), eff)
            i == Top(w).i
        IN /\ eff = "none" \/ Untouched(World(r))
           /\ \/ Commit(r, Return(Logged(w, "pre", i, "return")))
              \/ Commit(r, CallNext(Logged(w, "pre", i, "next")))
              \/ \E e \in env.throws : Commit(r, MiddlewareThrew(Logged(w, "pre", i, "throw"), e))

\* the post-continuation leg of the middleware on top of the stack: it
\* returns, throws, or calls next() once more (awaited or not)
MiddlewarePost(r) ==
    /\ req[r].pc = "middleware"
    /\ Top(World(r)).leg = "post"
    /\ LET w == World(r)
           i == Top(w).i
       IN \/ Commit(r, Return(Logged(w, "post", i, "return")))
          \/ \E e \in env.throws : Commit(r, MiddlewareThrew(Logged(w, "post", i, "throw"), e))
          \/ /\ Top(w).calls < MaxNextCalls
             /\ Commit(r, CallNext(Logged(w, "post", i, "next")))
          \/ /\ Top(w).calls < MaxNextCalls
             /\ Commit(r, CallNextDetached(Logged(w, "post", i, "nextDetached")))

\* application.ts:185  await hook(ctx): response hook k returns or throws
ResponseHook(r) ==
    /\ req[r].pc = "responseHooks"
    /\ \/ Commit(r, ResponseHookReturned(World(r)))
       \/ \E e \in env.throws : Commit(r, ResponseHookThrew(World(r), e))

\* application.ts:267  await hook(err, ctx): error hook k returns or throws
ErrorHook(r) ==
    /\ req[r].pc = "errorHooks"
    /\ \/ Commit(r, ErrorHookReturned(World(r)))
       \/ Commit(r, ErrorHookThrew(World(r)))

\* application.ts:165-167  the raw response emits 'finish' (once, after it
\* was ended): every listener registered by then runs and releases.
EmitFinish(w) ==
    [w EXCEPT !.rq.res.finished = TRUE, !.rq.released = @ + w.rq.res.onFinish]

Finish(r) ==
    /\ req[r].res.writableEnded
    /\ ~req[r].res.finished
    /\ Commit(r, EmitFinish(World(r)))

Next ==
    \E r \in Requests :
        \/ Arrive(r)
        \/ RequestHook(r)
        \/ MiddlewarePre(r)
        \/ MiddlewarePost(r)
        \/ ResponseHook(r)
        \/ ErrorHook(r)
        \/ Finish(r)

Spec == Init /\ [][Next]_vars

\* ------------------------------------------ the pool called directly
\* Requests overlap; the middleware neither touch the response nor throw
\* anything but a plain Error.
InitConcurrent ==
    /\ InitState
    /\ env = [throws |-> {PlainError}, effects |-> {"none"}, overlap |-> TRUE]
    /\ tr = NoTransport

SpecConcurrent == InitConcurrent /\ [][Next]_vars

\* context.ts:28-40  request r is given its Context: pool.acquire(app, req, res),
\* once per request (application.ts:138)
AcquireCall(r) ==
    /\ refs[r] = {}
    /\ Len(pool) > 0 \/ created < MaxCtx
    /\ LET a == PoolAcquire(PoolState)
           cx == CtxReset(ctxs[a.ctx], r)
       IN /\ SetPool(a.ps)
          /\ ctxs' = [ctxs EXCEPT ![a.ctx] = cx]
          /\ users' = [users EXCEPT ![a.ctx] = @ \cup {r}]
          /\ refs' = [refs EXCEPT ![r] = @ \cup {a.ctx}]
          /\ last' = Acquired(r, PoolState, a.ctx, ctxs[a.ctx], cx)
    /\ UNCHANGED <<app, req, env, tr>>

\* context.ts:46-57  some request's code calls pool.release(ctx) on a Context
\* that acquire returned to it earlier (application logic, a completion
\* handler), whether or not it released it before.
ReleaseCall(r, c) ==
    /\ c \in refs[r]
    /\ SetPool(PoolRelease(PoolState, c))
    /\ ctxs' = [ctxs EXCEPT ![c] = CtxReleased(@, ReleasePushes(PoolState, c))]
    /\ users' = [users EXCEPT ![c] = @ \ {r}]
    /\ last' = Released(r, PoolState, c)
    /\ UNCHANGED <<app, req, refs, env, tr>>

\* the code of request r uses the Context acquire returned to it (released
\* since or not: a callback that still holds the reference)
Use(r, c) ==
    /\ c \in refs[r]
    /\ ctxs[c] # UseCtx(ctxs[c])
    /\ ctxs' = [ctxs EXCEPT ![c] = UseCtx(@)]
    /\ UNCHANGED <<app, req, pool, created, inUse, users, refs, env, last, tr>>

NextPool ==
    \E r \in Callers :
        \/ AcquireCall(r)
        \/ \E c \in CtxIds : ReleaseCall(r, c)
        \/ \E c \in CtxIds : Use(r, c)

SpecPool == InitConcurrent /\ [][NextPool]_vars

\* ------------------------------------------------ a transport written to
\* The transport under study is one of ts, the logger in front of it one of
\* lgs; nothing else runs.
InitWith(ts, lgs) ==
    /\ InitState
    /\ app.errorListener /\ app.timing /\ ~app.transportThrows
    /\ env = [throws |-> {}, effects |-> {}, overlap |-> FALSE]
    /\ tr \in {[NoTransport EXCEPT !.t = t, !.logger = lg] : t \in ts, lg \in lgs}

Others == <<app, req, pool, created, inUse, ctxs, users, refs, env, last>>

\* part_010:227  the logger hands an entry to its transport (at most max of
\* them in a run)
WriteEntry(e, max) ==
    /\ tr.writes < max
    /\ LET s == Stamp(e, tr.writes + 1)
           w == TransportWrite(tr.t, s)
       IN tr' = [tr EXCEPT !.t = w.t, !.writes = @ + 1, !.threw = w.threw, !.entry = s,
                           !.order = w.order, !.act = "write"]
    /\ UNCHANGED Others

\* types.ts:178-180, 233-235  the interval timer of a File or HTTP transport
\* fires: this.flush()
TimerFires(s) ==
    /\ s \in Slots(tr.t)
    /\ LeafAt(tr.t, s).timer
    /\ LET l == LeafAt(tr.t, s)
       IN tr' = [tr EXCEPT !.t = WithLeaf(tr.t, s, IF l.type = "file" THEN FileFlush(l) ELSE HttpFlush(l)),
                           !.act = "timer"]
    /\ UNCHANGED Others

\* types.ts:255  a fetch in flight completes: it resolves or it rejects
FetchSettles(s, k, ok) ==
    /\ s \in Slots(tr.t)
    /\ k \in 1..Len(LeafAt(tr.t, s).out)
    /\ LeafAt(tr.t, s).out[k].st = "inflight"
    /\ tr' = [tr EXCEPT !.t = WithLeaf(tr.t, s, HttpSettle(LeafAt(tr.t, s), k, ok)),
                        !.act = "settle"]
    /\ UNCHANGED Others

\* the owner of the transport calls flush() or close() on it and waits for
\* the call to end before the next
OpCall(op) ==
    /\ HasOp(tr.t)
    /\ tr.op.st # "pending"
    /\ tr.ops < MaxOps
    /\ LET r == TransportOp(op, tr.t)
       IN tr' = [tr EXCEPT !.t = r.t, !.op = Call(op, tr.t, r), !.ops = @ + 1,
                           !.closed = @ \/ op = "close", !.act = op]
    /\ UNCHANGED Others

FlushCall == OpCall("flush")

CloseCall == ~tr.closed /\ OpCall("close")

\* the fetches a pending flush or close waits for are over: its promise
\* resolves (types.ts:260-263: a failed fetch is caught inside flush)
OpSettles ==
    /\ tr.op.st = "pending"
    /\ \A p \in tr.op.awaits : LeafAt(tr.t, p[1]).out[p[2]].st # "inflight"
    /\ tr' = [tr EXCEPT !.op.st = "done", !.act = "resolve"]
    /\ UNCHANGED Others

\* part_010:183-228  Logger.log at a level, on data JSON.stringify accepts
\* or not: nothing when the logger is disabled or the level below its
\* threshold, else the entry is built and handed to the transport
LogCall(level, ok) ==
    /\ tr.calls < MaxWrites
    /\ IF LogForwards(tr.logger, level)
       THEN LET s == Stamp([level |-> level, ok |-> ok], tr.writes + 1)
                w == TransportWrite(tr.t, s)
            IN tr' = [tr EXCEPT !.t = w.t, !.writes = @ + 1, !.threw = w.threw, !.entry = s,
                                !.order = w.order, !.act = "log", !.calls = @ + 1,
                                !.level = level]
       ELSE tr' = [tr EXCEPT !.act = "log", !.calls = @ + 1, !.level = level, !.threw = FALSE]
    /\ UNCHANGED Others

\* One transport of any class and configuration receives entries.
InitTransport == InitWith(Transports, {NoLogger})

NextTransport ==
    \/ \E e \in Entries : WriteEntry(e, MaxWrites)
    \/ \E s \in 0..MaxChildren, k \in 1..MaxWrites, ok \in BOOLEAN : FetchSettles(s, k, ok)

SpecTransport == InitTransport /\ [][NextTransport]_vars

\* A FilterTransport over a transport of each class receives entries of the
\* four levels from info up and is flushed and closed.
InitFilter ==
    InitWith({Transport("filter", FALSE, "none", p, <<c>>) :
                p \in PredBehaviours, c \in {l \in Leaves : ~l.pretty /\ l.fn \in {"none", "returns"}}},
             {NoLogger})

NextFilter ==
    \/ \E e \in LevelEntries : WriteEntry(e, MaxFilterWrites)
    \/ FlushCall
    \/ CloseCall
    \/ \E k \in 1..MaxFilterWrites, ok \in BOOLEAN : FetchSettles(1, k, ok)
    \/ OpSettles

SpecFilter == InitFilter /\ [][NextFilter]_vars

\* A File or an HTTP transport receives entries while its timer fires, and
\* is flushed and closed by its owner.
InitBuffered ==
    InitWith({Transport("file", FALSE, "none", "none", <<>>),
              Transport("http", FALSE, "none", "none", <<>>)}, {NoLogger})

NextBuffered ==
    \/ \E e \in Entries : WriteEntry(e, MaxWrites)
    \/ TimerFires(0)
    \/ FlushCall
    \/ CloseCall
    \/ \E k \in 1..MaxWrites, ok \in BOOLEAN : FetchSettles(0, k, ok)
    \/ OpSettles

SpecBuffered == InitBuffered /\ [][NextBuffered]_vars

\* A Multi or Filter transport over buffered transports and transports of
\* the user's own receives entries and is flushed and closed.
InitComposite == InitWith(Composites, {NoLogger})

NextComposite ==
    \/ WriteEntry([level |-> LevelInfo, ok |-> TRUE], MaxWrites)
    \/ FlushCall
    \/ CloseCall
    \/ \E s \in 1..MaxChildren, k \in 1..MaxWrites, ok \in BOOLEAN : FetchSettles(s, k, ok)
    \/ OpSettles

SpecComposite == InitComposite /\ [][NextComposite]_vars

\* A logger of any threshold, enabled or not, in front of a Console or a
\* Function transport, is called at any level.
InitLogger ==
    InitWith({Transport("console", FALSE, "none", "none", <<>>),
              Transport("function", FALSE, "returns", "none", <<>>)}, Loggers)

NextLogger == \E level \in Levels, ok \in BOOLEAN : LogCall(level, ok)

SpecLogger == InitLogger /\ [][NextLogger]_vars

\* ----------------------------------------------- loggers and their children
\* The application built a FilterTransport that lets entries at error and
\* above through to a console transport, and a Logger with or without it;
\* child() is called on the loggers there are, and the loggers log.
NoLogCall ==
    [by |-> 0, level |-> 0, msg |-> "none", data |-> NoFields, forwarded |-> FALSE,
     entry |-> NoFields]

RootOptions ==
    [level : {"undefined", "error"}, name : {Absent("name"), "app"}, prettyPrint : {FALSE},
     enabled : BOOLEAN, transport : {0, 1}]

InitChild ==
    /\ InitState
    /\ app.errorListener /\ app.timing /\ ~app.transportThrows
    /\ env = [throws |-> {}, effects |-> {}, overlap |-> FALSE]
    /\ \E o \in RootOptions :
         LET f == Transport("filter", FALSE, "none", "errors",
                            <<Transport("console", FALSE, "none", "none", <<>>)>>)
             n == LoggerNew(o, <<f>>)
         IN tr = [heap |-> n.heap, loggers |-> <<n.lg>>,
                  made |-> <<[parent |-> 0, fields |-> NoFields]>>,
                  calls |-> 0, act |-> "none", call |-> NoLogCall]

\* part_010:98-108  child(fields) is called on logger p
NewChild(p, fields) ==
    /\ Len(tr.loggers) < MaxLoggers
    /\ p \in 1..Len(tr.loggers)
    /\ LET c == Child(tr.loggers[p], fields, tr.heap)
       IN tr' = [tr EXCEPT !.loggers = Append(@, c.lg), !.heap = c.heap,
                           !.made = Append(@, [parent |-> p, fields |-> fields]),
                           !.act = "child"]
    /\ UNCHANGED Others

\* part_010:183-228  a logging method of logger l is called with a message
\* and data
LogAt(l, level, data) ==
    /\ tr.calls < MaxLogCalls
    /\ l \in 1..Len(tr.loggers)
    /\ LET lg == tr.loggers[l]
           e == BuildEntry(lg, level, "hello", data)
           w == TransportWrite(tr.heap[lg.transport], Handed(e, tr.calls + 1))
           c == [by |-> l, level |-> level, msg |-> "hello", data |-> data,
                 forwarded |-> LogForwards(lg, level),
                 entry |-> IF LogForwards(lg, level) THEN e ELSE NoFields]
       IN tr' = [tr EXCEPT !.heap[lg.transport] = IF c.forwarded THEN w.t ELSE @,
                           !.calls = @ + 1, !.act = "log", !.call = c]
    /\ UNCHANGED Others

NextChild ==
    \/ \E p \in 1..MaxLoggers, fields \in FieldSets : NewChild(p, fields)
    \/ \E l \in 1..MaxLoggers, level \in {LevelInfo, LevelError}, data \in FieldSets :
          LogAt(l, level, data)

SpecChild == InitChild /\ [][NextChild]_vars


\* ================================================================ claims
\* The trace of a request: its events <<kind, index, what>> in order.
Positions(r) == 1..Len(req[r].log)

Settled(r) == req[r].pc = "settled"

UserCodeKinds == {"requestHook", "pre", "post", "responseHook"}

ErrorPhaseKinds == {"error", "errorHook", "errorSend"}

\* a request hook, a middleware, a response hook or Respond threw
ThrewAt(r, p) ==
    /\ req[r].log[p][3] = "throw"
    /\ req[r].log[p][1] \in UserCodeKinds \cup {"respond"}

\* C1: every request in which a request hook, a middleware, a response hook
\* or Respond throws has its raw response ended exactly once by the time
\* handleRequest settles.
C1_ErrorEndsResponseExactlyOnce ==
    \A r \in Requests :
        (Settled(r) /\ \E p \in Positions(r) : ThrewAt(r, p)) => req[r].res.ends = 1

\* C2: no Context is owned by two requests at once, for every sequence of
\* acquire and release calls in which release is called on any Context
\* acquire returned earlier, any number of times.
C2_NoContextOwnedTwice ==
    \A c \in CtxIds : Cardinality(users[c]) <= 1

\* The events of the middleware legs of a request, in order.
IsLeg(ev) == ev[1] \in {"pre", "post"}

Legs(r) == SelectSeq(req[r].log, IsLeg)

\* no middleware of the request called its continuation a second time
CalledAtMostOnce(r) ==
    \A p \in Positions(r) :
        ~(req[r].log[p][1] = "post" /\ req[r].log[p][3] \in {"next", "nextDetached"})

\* C3: when every middleware calls and awaits its continuation at most
\* once, the legs form an onion: the pre-continuation legs run first, in
\* registration order, each started by the continuation call of the one
\* before; the post-continuation leg of middleware i runs right after
\* middleware i+1 is over (returned from its only or its post leg), or
\* right after its own continuation call when i is the last middleware, so
\* the post legs run in the reverse order.
C3_OnionOrder ==
    \A r \in Requests :
        CalledAtMostOnce(r) =>
            LET ev == Legs(r)
            IN \A p \in 1..Len(ev) :
                LET i == ev[p][2]
                IN /\ ev[p][1] = "pre" =>
                        /\ i = p - 1
                        /\ p > 1 => ev[p - 1] = <<"pre", i - 1, "next">>
                   /\ ev[p][1] = "post" =>
                        /\ p > 1
                        /\ ev[i + 1] = <<"pre", i, "next">>
                        /\ \/ ev[p - 1] = <<"pre", i, "next">> /\ i = NumMiddleware - 1
                           \/ ev[p - 1] = <<"pre", i + 1, "return">>
                           \/ ev[p - 1] = <<"post", i + 1, "return">>

\* [A, B, C] with C not calling next: A-before, B-before, C, B-after, A-after
C3_Witness ==
    \E r \in Requests :
        /\ Settled(r)
        /\ Legs(r) = << <<"pre", 0, "next">>, <<"pre", 1, "next">>, <<"pre", 2, "return">>,
                        <<"post", 1, "return">>, <<"post", 0, "return">> >>

\* a middleware of the request called its continuation a second time
CalledTwice(r) == ~CalledAtMostOnce(r)

\* C4: a request in which a middleware calls its continuation twice enters
\* the error phase exactly once, with the 'next() called multiple times'
\* error.
C4_SecondCallEntersErrorPhaseOnce ==
    \A r \in Requests :
        (Settled(r) /\ CalledTwice(r)) =>
            /\ req[r].errEntered = 1
            /\ req[r].err = NextTwiceError

\* C5: the Context of a request is passed to release at most once and never
\* before the 'finish' event of its response: from acquire to 'finish' it is
\* not in the free list.
C5_ReleaseOnlyOnFinish ==
    \A r \in Requests :
        req[r].pc # "idle" =>
            /\ req[r].released <= 1
            /\ req[r].released = 1 => req[r].res.finished
            /\ ~req[r].res.finished => ~InPool(req[r].ctx)

\* the response of a settled request was ended by send() and has not
\* finished; the next request is being handled with another Context
C5_Witness ==
    \E r, q \in Requests :
        /\ req[r].pc \in {"settled", "retired"}
        /\ req[r].res.writableEnded /\ ~req[r].res.finished
        /\ req[r].res.onFinish = 1
        /\ Handling(req[q])
        /\ req[q].ctx # req[r].ctx
        /\ pool = <<>>

\* C6: the Context of every request whose response finishes is released.
\* The listener that releases runs when 'finish' is emitted, so a finished
\* response whose handler has settled has released its Context or never will.
C6_FinishedIsReleased ==
    \A r \in Requests :
        (req[r].pc \in {"settled", "retired"} /\ req[r].res.finished) => req[r].released = 1

\* C7: when error hook k throws, every error hook registered after k still
\* runs and the response is still sent.
C7_ErrorHooksIsolated ==
    \A r \in Requests :
        Settled(r) =>
            \A p \in Positions(r) :
                (req[r].log[p][1] = "errorHook" /\ req[r].log[p][3] = "throw") =>
                    /\ \A k \in (req[r].log[p][2] + 1)..NumErrorHooks :
                          \E q \in Positions(r) :
                              req[r].log[q][1] = "errorHook" /\ req[r].log[q][2] = k
                    /\ req[r].res.writableEnded

\* C8: the promise of handleRequest never rejects.
C8_HandleRequestNeverRejects ==
    \A r \in Requests : req[r].outcome # "rejected"

C10_ResponseHookThrowAborts ==
    \A r \in Requests :
        \A p \in Positions(r) :
            (req[r].log[p][3] = "throw" /\ req[r].log[p][1] = "responseHook") =>
                /\ Len(req[r].log) > p
                /\ req[r].log[p + 1] = <<"error", 0, "enter">>
                /\ \A q \in Positions(r) : q > p => req[r].log[q][1] \in ErrorPhaseKinds
                /\ \A a, b \in Positions(r) :
                      (/\ req[r].log[a][1] \in {"requestHook", "pre"}
                       /\ req[r].log[a][1] = req[r].log[b][1]
                       /\ req[r].log[a][2] = req[r].log[b][2]) => a = b

\* the first of two response hooks threw in a request that has settled
C10_Witness ==
    \E r \in Requests :
        /\ Settled(r)
        /\ \E p \in Positions(r) : req[r].log[p] = <<"responseHook", 1, "throw">>
        /\ req[r].res.ends = 1

\* The request hooks, the response hooks and the error hooks that ran in a
\* request, each list in the order they ran.
IsRequestHook(ev) == ev[1] = "requestHook"

IsResponseHook(ev) == ev[1] = "responseHook"

IsErrorHook(ev) == ev[1] = "errorHook"

HooksRun(r) ==
    << SelectSeq(req[r].log, IsRequestHook),
       SelectSeq(req[r].log, IsResponseHook),
       SelectSeq(req[r].log, IsErrorHook) >>

\* C11: the request hooks of a request run in registration order, one after
\* the other and none twice: the p-th request hook to run is the p-th
\* registered; likewise the response hooks and the error hooks.  A
\* middleware starts only after every request hook has returned.
C11_HooksInRegistrationOrder ==
    \A r \in Requests :
        /\ \A h \in 1..3 :
              \A p \in 1..Len(HooksRun(r)[h]) : HooksRun(r)[h][p][2] = p
        /\ \A p \in Positions(r) :
              req[r].log[p][1] = "pre" =>
                  \A k \in 1..NumRequestHooks :
                      \E q \in 1..(p - 1) : req[r].log[q] = <<"requestHook", k, "ok">>

\* every request hook, a middleware and every response hook ran in a request
\* that has settled
C11_Witness ==
    \E r \in Requests :
        /\ Settled(r)
        /\ Len(HooksRun(r)[1]) = NumRequestHooks
        /\ Len(HooksRun(r)[2]) = NumResponseHooks
        /\ \E p \in Positions(r) : req[r].log[p][1] = "pre"

ErrorResponseSent(r) ==
    /\ \E p \in Positions(r) : req[r].log[p] = <<"errorSend", 0, "send">>
    /\ req[r].res.writableEnded

PoolChanged == <<pool, created, inUse>>' # <<pool, created, inUse>>

AcquireStep == last'.op = "acquire" /\ (last' # last \/ PoolChanged)

ReleaseStep == last'.op = "release" /\ (last' # last \/ PoolChanged)

\* C14: the free list never holds more than maxSize Contexts, and a release
\* that finds it holding maxSize leaves it as it is.
C14_FreeListBounded ==
    /\ [](Len(pool) <= app.maxSize)
    /\ [][(ReleaseStep /\ Len(pool) = app.maxSize) => pool' = pool]_vars

\* a Context in use was released while the free list was full: its flag is
\* cleared and it is not in the free list
C14_Witness ==
    /\ last.op = "release" /\ last.flag
    /\ Len(pool) = app.maxSize
    /\ ~InPool(last.ctx)
    /\ ~inUse[last.ctx]

\* C15: no Context is in the free list twice, every Context in the free list
\* has its in-use flag cleared, and a release of a Context whose flag is
\* cleared (a second release with no acquire of it in between) changes
\* neither the free list, nor the created count, nor a flag.
C15_ReleaseIdempotent ==
    /\ [](\A j, k \in 1..Len(pool) : pool[j] = pool[k] => j = k)
    /\ [](\A k \in 1..Len(pool) : ~inUse[pool[k]])
    /\ [][(last'.op = "release" /\ ~inUse[last'.ctx]) => ~PoolChanged]_vars

\* a Context in the free list was released again
C15_Witness ==
    /\ last.op = "release" /\ ~last.flag
    /\ InPool(last.ctx)

\* C16: the state map of the Context acquire returns is empty.
C16_StateEmptyOnAcquire ==
    last.op = "acquire" => last.got.state = {}

\* acquire took from the free list a Context whose state map held a key
C16_Witness ==
    /\ last.op = "acquire" /\ last.reused
    /\ last.was.state # {}
    /\ last.got.state = {}

\* C17: on the Context acquire returns for request r, path and query read as
\* those of r, status is 404, body is unset and no status message is left.
C17_NoLeakThroughReuse ==
    last.op = "acquire" =>
        /\ last.got.boundTo = last.by
        /\ ReadPath(last.got).val = last.by
        /\ ReadQuery(last.got).val = last.by
        /\ last.got.status = 404 /\ ~last.got.explicit
        /\ last.got.body = UnsetBody
        /\ last.got.message = ""

\* acquire took from the free list a Context on which another request had
\* read path and query and set a body
C17_Witness ==
    /\ last.op = "acquire" /\ last.reused
    /\ last.was.pathCache \notin {0, last.by}
    /\ last.was.queryCache \notin {0, last.by}
    /\ last.was.body # UnsetBody /\ last.was.status = OkStatus
    /\ ReadPath(last.got).val = last.by

\* C18: an acquire that finds the free list non-empty returns the Context
\* release pushed last among those in it (release pushes at the end of the
\* list) and takes it out of the list.
C18_ReuseIsLifo ==
    [][(AcquireStep /\ Len(pool) > 0) =>
            /\ last'.ctx = pool[Len(pool)]
            /\ pool' = SubSeq(pool, 1, Len(pool) - 1)]_vars

\* acquire found two Contexts in the free list and left one
C18_Witness ==
    /\ last.op = "acquire" /\ last.reused
    /\ Len(pool) = 1
    /\ pool[1] # last.ctx

\* C19: created grows by one on an acquire that finds the free list empty and
\* stays as it is on every other step; maxSize never changes; getStats
\* reports the length of the free list, created and maxSize, and
\* poolSize <= created.
C19_StatsAreConsistent ==
    /\ [][/\ (AcquireStep /\ Len(pool) = 0) => GetStats'.created = GetStats.created + 1
          /\ ~(AcquireStep /\ Len(pool) = 0) => GetStats'.created = GetStats.created
          /\ GetStats'.maxSize = GetStats.maxSize]_vars
    /\ [](/\ GetStats.poolSize = Len(pool)
          /\ GetStats.created = created
          /\ GetStats.maxSize = app.maxSize
          /\ GetStats.poolSize <= GetStats.created)

\* two Contexts were constructed, one is in the free list, and the last
\* acquire reused one
C19_Witness ==
    /\ last.op = "acquire" /\ last.reused
    /\ GetStats.created = 2
    /\ GetStats.poolSize = 1

\* --------------------------------------------------- claims on transports
\* C20: write(entry) of a transport of any class returns to its caller: the
\* last write did not throw.
C20_WriteNeverThrows == ~tr.threw

\* the write of child i of a MultiTransport threw on entry e
ChildThrows(i, e) ==
    /\ i \in 1..Len(tr.t.children)
    /\ LeafWrite(tr.t.children[i], e).threw

\* C21: MultiTransport.write(entry) calls write(entry) on every child once,
\* in the order the children were given, whichever of those calls throw:
\* every child received exactly the entries the MultiTransport received, in
\* the same order, the last write called the children 1, 2, ... and returned.
C21_MultiWritesEveryChild ==
    tr.t.type = "multi" =>
        /\ ~tr.threw
        /\ \A i \in 1..Len(tr.t.children) : tr.t.children[i].recv = tr.t.recv
        /\ tr.act = "write" => tr.order = [i \in 1..Len(tr.t.children) |-> i]

\* a MultiTransport over two transports whose first threw on the entry just
\* written, and whose second has it
C21_Witness ==
    /\ tr.t.type = "multi" /\ tr.act = "write" /\ Len(tr.t.children) = 2
    /\ ChildThrows(1, tr.entry)
    /\ tr.t.children[2].recv # <<>>
    /\ tr.t.children[2].recv[Len(tr.t.children[2].recv)] = tr.entry

\* C23: when the predicate of a FilterTransport throws on an entry, write
\* returns normally and the entry is not forwarded.
C23_FilterFailsClosed ==
    (/\ tr.t.type = "filter" /\ tr.act = "write"
     /\ PredOutcome(tr.t.pred, tr.entry) = "throws") =>
        /\ ~tr.threw
        /\ tr.order = <<>>

\* C22: flush() and close() of a MultiTransport call the same operation on
\* every child that defines it, whatever a child's call does, and do not
\* fail themselves: each such child was flushed and closed as often as the
\* MultiTransport, whose last call neither threw nor rejected.
C22_MultiOpsReachEveryChild ==
    tr.t.type = "multi" =>
        /\ tr.op.st \notin {"threw", "failed"}
        /\ \A i \in 1..Len(tr.t.children) :
                HasOp(tr.t.children[i]) =>
                    /\ tr.t.children[i].flushes = tr.t.flushes
                    /\ tr.t.children[i].closes = tr.t.closes

\* C27: when flush() or close() of a Multi or Filter transport has resolved,
\* every outbound call its children started for the entries buffered
\* before the call is over.
C27_CompositeWaitsForChildren ==
    (tr.t.type \in {"multi", "filter"} /\ tr.op.st = "done") =>
        \A p \in tr.op.issued : LeafAt(tr.t, p[1]).out[p[2]].st # "inflight"

\* e.level >= 50 or not, as the predicate of the filter says it
Admits(p, e) == PredOutcome(p, e) = "true"

\* the entries of es the predicate p is true of, in their order
RECURSIVE Admitted(_, _)
Admitted(p, es) ==
    IF es = <<>> THEN <<>>
    ELSE IF Admits(p, Head(es)) THEN <<Head(es)>> \o Admitted(p, Tail(es))
    ELSE Admitted(p, Tail(es))

LevelsOf(es) == [i \in 1..Len(es) |-> es[i].level]

\* C24: with a predicate that does not throw, the wrapped transport has
\* received exactly the entries written to the FilterTransport that the
\* predicate is true of, each once, in their order; flush and close reach
\* the wrapped transport, when it defines them, whatever the predicate.
C24_FilterForwardsSubsequence ==
    (tr.t.type = "filter" /\ tr.t.pred \in {"true", "false", "errors"}) =>
        /\ tr.t.children[1].recv = Admitted(tr.t.pred, tr.t.recv)
        /\ HasOp(tr.t.children[1]) =>
                /\ tr.t.children[1].flushes = tr.t.flushes
                /\ tr.t.children[1].closes = tr.t.closes

\* predicate level >= 50, writes at info, warn, error, fatal: the error and
\* the fatal entry arrived; the wrapped transport was flushed and closed
C24_Witness ==
    /\ tr.t.type = "filter" /\ tr.t.pred = "errors"
    /\ LevelsOf(tr.t.recv) = <<LevelInfo, LevelWarn, LevelError, LevelFatal>>
    /\ LevelsOf(tr.t.children[1].recv) = <<LevelError, LevelFatal>>
    /\ tr.t.children[1].flushes = 1 /\ tr.t.children[1].closes = 1

\* the entries of the batches, in the order the batches were handed over
RECURSIVE Flat(_)
Flat(out) == IF out = <<>> THEN <<>> ELSE Head(out).entries \o Flat(Tail(out))

\* the entries of es that JSON.stringify accepts
RECURSIVE Serializable(_)
Serializable(es) ==
    IF es = <<>> THEN <<>>
    ELSE IF Head(es).ok THEN <<Head(es)>> \o Serializable(Tail(es))
    ELSE Serializable(Tail(es))

\* The entries a buffered transport took in: those its write returned on.
\* FileTransport.write throws on an entry it cannot serialize, before it
\* buffers it (types.ts:187); HttpTransport.write buffers every entry
\* (types.ts:241).
Accepted(t) == IF t.type = "file" THEN Serializable(t.recv) ELSE t.recv

\* the entries taken in that no batch carries yet
Pending(t) == SubSeq(Accepted(t), Len(Flat(t.out)) + 1, Len(Accepted(t)))

\* a write on the File transport under study that returned
FileWriteStep ==
    /\ tr.t.type = "file"
    /\ tr'.act = "write" /\ tr'.writes = tr.writes + 1
    /\ ~tr'.threw

\* C25: a FileTransport with bufferSize k writes to its stream exactly once
\* on the k-th write since the last flush, the k entries in write order, and
\* not at all on the writes before it; the write after it starts a buffer
\* that holds that entry alone.
C25_FlushOnKthWrite ==
    /\ [](tr.t.type = "file" => Len(Pending(tr.t)) < BufferSize)
    /\ [][FileWriteStep =>
            IF Len(Pending(tr.t)) + 1 = BufferSize
            THEN /\ tr'.t.out = Append(tr.t.out, Batch(Append(Pending(tr.t), tr'.entry), "written"))
                 /\ tr'.t.buf = <<>>
            ELSE /\ tr'.t.out = tr.t.out
                 /\ tr'.t.buf = Append(Pending(tr.t), tr'.entry)]_vars

\* bufferSize writes made one stream write of those entries, and the write
\* after them is alone in the buffer; no timer fired, nobody called flush
C25_Witness ==
    /\ tr.t.type = "file" /\ tr.act = "write" /\ tr.ops = 0
    /\ Len(tr.t.recv) = BufferSize + 1
    /\ tr.t.out = <<Batch(SubSeq(tr.t.recv, 1, BufferSize), "written")>>
    /\ tr.t.buf = <<tr.entry>>

\* s is a prefix of t
IsPrefix(s, t) == Len(s) <= Len(t) /\ s = SubSeq(t, 1, Len(s))

\* C26: for a File or HTTP transport, the batches handed to the underlying
\* I/O, put end to end in the order they were issued, are a prefix of the
\* entries written: none dropped, none twice, none out of order.
C26_BatchesArePrefixOfWrites ==
    tr.t.type \in {"file", "http"} => IsPrefix(Flat(tr.t.out), Accepted(tr.t))

\* C28: when close() of a File or HTTP transport has returned, its buffer
\* is empty, every entry written before is in a batch handed to the
\* underlying I/O and the timer is cancelled; no timer flush happens later.
C28_CloseDrains ==
    (tr.t.type \in {"file", "http"} /\ tr.closed) =>
        /\ ~tr.t.timer
        /\ tr.act # "timer"
        /\ tr.act = "close" => (tr.t.buf = <<>> /\ Flat(tr.t.out) = Accepted(tr.t))

\* the entries of es are in the order they were written, none twice
Increasing(es) == \A i, j \in 1..Len(es) : i < j => es[i].id < es[j].id

\* C29: when the outbound call of HttpTransport.flush fails, flush still
\* resolves; the failed batch is not sent again; entries written later are
\* batched and sent as usual.  A flush called on the transport never threw
\* or rejected; what was handed over and what is buffered is, end to end,
\* in write order with no entry twice; every entry written is in a batch,
\* in the buffer, or was discarded unsent with a batch that could not be
\* serialized.
C29_FailedBatchNotRetried ==
    tr.t.type = "http" =>
        /\ tr.op.st \notin {"threw", "failed"}
        /\ Increasing(Flat(tr.t.out) \o tr.t.buf)
        /\ Len(Flat(tr.t.out)) + Len(tr.t.buf) + tr.t.lost = Len(tr.t.recv)
        /\ (\A i \in 1..Len(tr.t.recv) : tr.t.recv[i].ok) =>
                Flat(tr.t.out) \o tr.t.buf = tr.t.recv

\* a flush whose outbound call failed has resolved, and a batch issued
\* after the failed one was sent
C29_Witness ==
    /\ tr.t.type = "http"
    /\ tr.op.kind = "flush" /\ tr.op.st = "done"
    /\ \E p \in tr.op.awaits :
          /\ tr.t.out[p[2]].st = "failed"
          /\ \E j \in 1..Len(tr.t.out) : j > p[2] /\ tr.t.out[j].st = "sent"

\* a call of the logger at some level
LogStep == tr'.act = "log" /\ tr'.calls = tr.calls + 1

\* C30: a Logger hands an entry to its transport for a call at level L
\* exactly when it is enabled and L is at least its threshold, which is
\* what isLevelEnabled(L) reports; else the transport is not touched.
C30_ForwardsIffLevelEnabled ==
    /\ [](\A i \in 1..Len(tr.t.recv) : IsLevelEnabled(tr.logger, tr.t.recv[i].level))
    /\ [][LogStep =>
            IF IsLevelEnabled(tr.logger, tr'.level)
            THEN /\ tr'.writes = tr.writes + 1
                 /\ tr'.entry.level = tr'.level
                 /\ tr'.t.recv = Append(tr.t.recv, tr'.entry)
            ELSE /\ tr'.writes = tr.writes
                 /\ tr'.t = tr.t]_vars

\* a logger with threshold warn forwarded a call at warn and then held back
\* a call at info
C30_Witness ==
    /\ tr.logger.enabled /\ tr.logger.level = LevelWarn
    /\ tr.act = "log" /\ tr.level = LevelInfo
    /\ tr.calls = 2 /\ tr.writes = 1
    /\ LevelsOf(tr.t.recv) = <<LevelWarn>>

Invocations(r, i) ==
    Cardinality({p \in Positions(r) : req[r].log[p][1] = "pre" /\ req[r].log[p][2] = i})
    + Cardinality({k \in 1..Len(req[r].stack) :
                      req[r].stack[k].i = i /\ req[r].stack[k].leg = "pre"})

\* C33: within one request each middleware is invoked at most once,
\* however often and in whatever way continuations are called again.
C33_MiddlewareInvokedAtMostOnce ==
    \A r \in Requests : \A i \in 0..(NumMiddleware - 1) : Invocations(r, i) <= 1

\* the first middleware awaited its continuation, the chain below it ran
\* to its end, and it called the continuation again: the error phase was
\* entered and every middleware had run once
C33_Witness ==
    \E r \in Requests :
        /\ Settled(r)
        /\ \E p \in Positions(r) : req[r].log[p] = <<"post", 0, "next">>
        /\ req[r].err = NextTwiceError
        /\ \A i \in 0..(NumMiddleware - 1) : Invocations(r, i) = 1

\* C34: the raw response of a request is ended at most once: send() on a
\* response whose headers were sent or that was ended writes nothing.
C34_ResponseEndedAtMostOnce ==
    \A r \in Requests : req[r].res.ends <= 1

\* Respond ran on a response a middleware had ended, and that had already
\* emitted 'finish' by then (the listener registered after it never ran):
\* the response was ended once
C34_Witness ==
    \E r \in Requests :
        /\ Settled(r)
        /\ \E p \in Positions(r) : req[r].log[p] = <<"respond", 0, "ok">>
        /\ req[r].res.finished /\ req[r].res.onFinish = 1 /\ req[r].released = 0
        /\ req[r].res.ends = 1

\* the phase an event of the trace belongs to: request hooks, middleware,
\* response hooks, Respond, error phase
PhaseOf(ev) ==
    CASE ev[1] = "requestHook" -> 1
      [] ev[1] \in {"pre", "post"} -> 2
      [] ev[1] = "responseHook" -> 3
      [] ev[1] = "respond" -> 4
      [] OTHER -> 5

\* C36: the phases of a request only move forward: request hooks,
\* middleware, response hooks, Respond, then at most one error phase; the
\* error phase is entered once at most and never after Respond completed
\* without throwing; no phase is entered again after it was left.
C36_PhasesMoveForward ==
    \A r \in Requests :
        /\ req[r].errEntered <= 1
        /\ \A p, q \in Positions(r) :
              p < q =>
                /\ PhaseOf(req[r].log[p]) <= PhaseOf(req[r].log[q])
                /\ req[r].log[p] = <<"respond", 0, "ok">> => PhaseOf(req[r].log[q]) < 5
                /\ req[r].log[p] = <<"error", 0, "enter">> => req[r].log[q] # <<"error", 0, "enter">>
                /\ req[r].log[p][1] = "respond" => req[r].log[q][1] # "respond"

\* a request went through every phase: its hooks and middleware ran,
\* Respond threw, and the error phase ran to its last hook
C36_Witness ==
    \E r \in Requests :
        /\ Settled(r)
        /\ \E p \in Positions(r) : req[r].log[p] = <<"respond", 0, "throw">>
        /\ \E p \in Positions(r) : req[r].log[p] = <<"errorHook", NumErrorHooks, "ok">>
        /\ {PhaseOf(req[r].log[p]) : p \in Positions(r)} = 1..5

\* C37: the 'highest index reached' counter belongs to one invocation of
\* executeMiddleware: of requests handled concurrently, one whose
\* middleware call their continuation at most once never fails with
\* 'next() called multiple times', and its pre-continuation legs run in
\* registration order whatever the other requests do.
C37_IndexIsPerRequest ==
    \A r \in Requests :
        CalledAtMostOnce(r) =>
            /\ req[r].err # NextTwiceError
            /\ \A p \in 1..Len(Legs(r)) :
                  Legs(r)[p][1] = "pre" =>
                      Legs(r)[p][2] =
                          Cardinality({q \in 1..(p - 1) : Legs(r)[q][1] = "pre"})
            /\ req[r].pc = "middleware" =>
                  \A k \in 1..Len(req[r].stack) : req[r].stack[k].i <= req[r].index

\* two requests are inside executeMiddleware at once: the second reached the
\* end of the chain while the first, started earlier, is only in its second
\* middleware
C37_Witness ==
    /\ req[1].pc = "middleware" /\ req[2].pc = "middleware"
    /\ CalledAtMostOnce(1) /\ CalledAtMostOnce(2)
    /\ req[2].index = NumMiddleware
    /\ req[1].index = 1 /\ Top(World(1)).leg = "pre"

\* ------------------------------------- claims on the buffered transports
\* the transport under study is a File or an HTTP transport
Buffered == tr.t.type \in {"file", "http"}

\* C35: flush() of a File or HTTP transport whose buffer is empty performs
\* no I/O and leaves the transport as it was, whether the timer or a caller
\* started it: no batch is handed over, nothing is posted, the promise of
\* the call waits for nothing.
C35_EmptyFlushDoesNothing ==
    [][(Buffered /\ tr.t.buf = <<>>) =>
         /\ tr'.act = "timer" => tr'.t = tr.t
         /\ (tr'.act = "flush" /\ tr'.ops = tr.ops + 1) =>
               /\ tr'.t = [tr.t EXCEPT !.flushes = @ + 1]
               /\ tr'.op.st = "done" /\ tr'.op.awaits = {} /\ tr'.op.issued = {}]_vars

\* flush() was called right after the write that filled and emptied the
\* buffer: the one batch of that write is all that was handed over
C35_Witness ==
    /\ Buffered /\ tr.act = "flush" /\ tr.op.st = "done"
    /\ tr.writes = BufferSize /\ tr.t.flushes = 1 /\ tr.ops = 1
    /\ tr.t.buf = <<>>
    /\ Len(tr.t.out) = 1 /\ Len(tr.t.out[1].entries) = BufferSize

\* the write indices of the entries of es
Ids(es) == {es[i].id : i \in 1..Len(es)}

\* a write on the HTTP transport under study
HttpWriteStep ==
    /\ tr.t.type = "http"
    /\ tr'.act = "write" /\ tr'.writes = tr.writes + 1

C40_BufferBelowThreshold ==
    Buffered => Len(tr.t.buf) < BufferSize

\* the timer flushed a buffer holding one entry, and the second write after
\* it reached the threshold: the buffer is empty again
C40_Witness ==
    /\ Buffered /\ tr.act = "write" /\ tr.ops = 0
    /\ tr.writes = BufferSize + 1
    /\ Len(tr.t.out) = 2
    /\ Len(tr.t.out[1].entries) = 1 /\ Len(tr.t.out[2].entries) = BufferSize
    /\ tr.t.buf = <<>>

\* ------------------------------------------- claims on loggers and children
\* the logger that child() was called on to make logger c
ParentOf(c) == tr.loggers[tr.made[c].parent]

\* the keys an entry has only when bindings or data bring them
UserKeys == {"reqId", "user"}

\* C31: child(fields) returns a Logger that writes to the very same
\* Transport object as its parent (no transport is built for it), has the
\* parent's level, name and enabled flag, and whose bindings are the
\* parent's with its own fields assigned over them; every entry it
\* produces carries its fields and the parent's bindings (under the data of
\* the call); the entries of a logger never carry a field that only a
\* child of it was given.
C31_ChildSharesTransportAndMergesFields ==
    /\ Len(tr.heap) = tr.loggers[1].transport
    /\ \A c \in 2..Len(tr.loggers) :
          /\ tr.loggers[c].transport = ParentOf(c).transport
          /\ tr.loggers[c].level = ParentOf(c).level
          /\ tr.loggers[c].name = ParentOf(c).name
          /\ tr.loggers[c].enabled = ParentOf(c).enabled
          /\ tr.loggers[c].bindings = Assign(ParentOf(c).bindings, tr.made[c].fields)
    /\ tr.call.forwarded =>
          LET l == tr.call.by
              lg == tr.loggers[l]
              e == tr.call.entry
              recv == tr.heap[lg.transport].recv
          IN /\ recv # <<>>
             /\ \A k \in FieldKeys : recv[Len(recv)][k] = e[k]
             /\ \A k \in FieldKeys :
                   ~Has(tr.call.data, k) =>
                      /\ Has(lg.bindings, k) => e[k] = lg.bindings[k]
                      /\ l > 1 =>
                            IF Has(tr.made[l].fields, k) THEN e[k] = tr.made[l].fields[k]
                            ELSE Has(ParentOf(l).bindings, k) => e[k] = ParentOf(l).bindings[k]
             /\ \A c \in 2..Len(tr.loggers), k \in UserKeys :
                   (/\ tr.made[c].parent = l
                    /\ Has(tr.made[c].fields, k)
                    /\ ~Has(lg.bindings, k) /\ ~Has(tr.call.data, k)) => ~Has(e, k)

\* a child made with a request id and a user logged, then a child of that
\* child made with another request id: both entries are in the one
\* transport, the second with its own request id and the user of its parent
C31_Witness ==
    /\ Len(tr.loggers) = 3 /\ tr.made[2].parent = 1 /\ tr.made[3].parent = 2
    /\ tr.call.by = 3 /\ tr.call.forwarded /\ tr.call.data = NoFields
    /\ LET recv == tr.heap[tr.loggers[1].transport].recv
       IN /\ Len(recv) = 2
          /\ recv[1]["reqId"] = "r2" /\ recv[1]["user"] = "u1"
          /\ recv[2]["reqId"] = "r1" /\ recv[2]["user"] = "u1"

\* the entry of the last call went through the filter to the transport
\* behind it
PassedFilter(t) ==
    \E i \in 1..Len(t.children[1].recv) : t.children[1].recv[i]["id"] = tr.calls

\* C38: every entry a Logger hands to its transport has the numeric level
\* of the method called and the msg given to the call, whatever keys the
\* bindings and the data of the call have; a FilterTransport on the level
\* lets the entry through exactly when the level of the call passes.
C38_EntryHasLevelOfCall ==
    tr.call.forwarded =>
        /\ tr.call.entry["level"] = tr.call.level
        /\ tr.call.entry["msg"] = tr.call.msg
        /\ LET t == tr.heap[tr.loggers[tr.call.by].transport]
           IN t.type = "filter" => (PassedFilter(t) <=> tr.call.level >= LevelError)

====
